---------------------------- MODULE Spec2Model ----------------------------
(***************************************************************************)
(* Model of the static-site note generator: tools/generate_notes.py (the   *)
(* ingest pipeline) and tools/rebuild.py (the rebuild pipeline).           *)
(*                                                                         *)
(* Text is modelled as a sequence of one-character strings, so that the    *)
(* string operations of the code (strip, regex substitution, splitlines,   *)
(* strptime, concatenation) are computed character by character.  A CJK    *)
(* character is written as the string of its code point ("U968F").         *)
(***************************************************************************)
EXTENDS Integers, Sequences, FiniteSets, TLC

VARIABLES
    pc,         \* position of the running program
    arg,        \* input of the function under study (a text)
    arg2,       \* a second input (the other raw note of a pair)
    ret,        \* result of the function on arg
    ret2,       \* result of the function on arg2
    raw_dir,        \* raw/: the texts of its .txt files, in the order of their names
    notes_dir,      \* notes/: file name -> content of the article
    index,      \* index.html: the document, a sequence of markup tokens
    queue,      \* main: the raw files the loop has still to read
    index_html, \* main: the index document as read at the start of the run
    new_notes,  \* main: the notes rendered by this run
    exit,       \* how the last run ended: "none", "running", "ok" or "fatal"
    runs,       \* number of runs started
    notes_dir0,     \* notes/ as it was when the current run started
    index0,         \* index.html as it was when the current run started
    posts,          \* rebuild main: the records parsed from notes/*.html
    all_html,       \* all.html: the tag listing
    archive_html,   \* archive.html: the year archive
    written         \* the documents the current rebuild run has written

fnVars == <<arg, arg2, ret, ret2>>
ingestVars == <<raw_dir, notes_dir, index, queue, index_html, new_notes, exit, runs,
                notes_dir0, index0>>
rebuildVars == <<posts, all_html, archive_html, written>>
vars == <<pc, arg, arg2, ret, ret2, raw_dir, notes_dir, index, queue, index_html, new_notes,
          exit, runs, notes_dir0, index0, posts, all_html, archive_html, written>>

\* the state of the pipelines while a single function is studied
IngestUnused ==
    /\ raw_dir = <<>> /\ notes_dir = <<>> /\ index = <<>> /\ queue = <<>>
    /\ index_html = <<>> /\ new_notes = <<>> /\ exit = "none" /\ runs = 0
    /\ notes_dir0 = <<>> /\ index0 = <<>>

\* the state of the rebuild pipeline while it does not run
RebuildUnused ==
    posts = <<>> /\ all_html = <<>> /\ archive_html = <<>> /\ written = {}

\* the state of the function variables while a pipeline is studied
FnUnused == arg = <<>> /\ arg2 = <<>> /\ ret = <<>> /\ ret2 = <<>>

(***************************************************************************)
(* Bounds of the model.                                                    *)
(***************************************************************************)
MaxStrLen == 3      \* longest string handed to sanitize_filename_component
MaxPairLen == 2     \* longest title of a raw note in a pair of notes
MaxRaw == 3         \* most .txt files in raw/
MaxRuns == 2        \* most runs of a pipeline in one behaviour
MaxArticles == 3    \* most articles in notes/ when the rebuild pipeline runs

(***************************************************************************)
(* Text helpers.                                                           *)
(***************************************************************************)
Range(s) == {s[i] : i \in 1..Len(s)}

RECURSIVE StrsUpTo(_, _)
\* every text over alphabet A of length at most n
StrsUpTo(A, n) ==
    IF n = 0 THEN {<<>>}
    ELSE LET S == StrsUpTo(A, n - 1)
         IN  S \cup {Append(s, c) : s \in {t \in S : Len(t) = n - 1}, c \in A}

\* Python's str.isspace / regex \s, on the characters the model uses
IsSpace(c) == c \in {" ", "\t", "\n", "\r"}

RECURSIVE LStrip(_, _)
LStrip(s, C) == IF s # <<>> /\ Head(s) \in C THEN LStrip(Tail(s), C) ELSE s

RECURSIVE RStrip(_, _)
RStrip(s, C) ==
    IF s # <<>> /\ s[Len(s)] \in C THEN RStrip(SubSeq(s, 1, Len(s) - 1), C) ELSE s

\* str.strip(chars)
StripChars(s, C) == RStrip(LStrip(s, C), C)

\* str.strip()
Strip(s) == StripChars(s, {" ", "\t", "\n", "\r"})

RECURSIVE Concat(_)
\* "".join(parts)
Concat(parts) == IF parts = <<>> THEN <<>> ELSE Head(parts) \o Concat(Tail(parts))

\* sub in s (substring test)
IsSubstring(sub, s) ==
    \E i \in 0..(Len(s) - Len(sub)) : SubSeq(s, i + 1, i + Len(sub)) = sub

RECURSIVE Replace(_, _, _)
\* str.replace(old, new), old non-empty: leftmost non-overlapping occurrences
Replace(s, old, new) ==
    IF Len(s) < Len(old) THEN s
    ELSE IF SubSeq(s, 1, Len(old)) = old
         THEN new \o Replace(SubSeq(s, Len(old) + 1, Len(s)), old, new)
         ELSE <<Head(s)>> \o Replace(Tail(s), old, new)

(***************************************************************************)
(* generate_notes.py: sanitize_filename_component                          *)
(***************************************************************************)
\* The characters matched by INVALID_RE.  INVALID_FILENAME_CHARS is a raw
\* string, so its \n, \r, \t are a backslash followed by a letter; re.escape
\* keeps the letters, and the character class holds < > : " / \ | ? * and the
\* letters n, r, t (not the newline, carriage return and tab characters).
INVALID_RE == {"<", ">", ":", "\"", "/", "\\", "|", "?", "*", "n", "r", "t"}

Untitled == <<"u", "n", "t", "i", "t", "l", "e", "d">>

RECURSIVE SubSpaceRuns(_)
\* re.sub(r"\s+", "-", s)
SubSpaceRuns(s) ==
    IF s = <<>> THEN <<>>
    ELSE IF IsSpace(Head(s))
         THEN <<"-">> \o SubSpaceRuns(LStrip(s, {" ", "\t", "\n", "\r"}))
         ELSE <<Head(s)>> \o SubSpaceRuns(Tail(s))

sanitize_NoPlaceholder(s) ==
    StripChars(SubSpaceRuns(SelectSeq(Strip(s), LAMBDA c : c \notin INVALID_RE)),
               {" ", "."})

sanitize_filename_component(s) ==
    LET s1 == Strip(s)
        s2 == SelectSeq(s1, LAMBDA c : c \notin INVALID_RE)
        s3 == SubSpaceRuns(s2)
        s4 == StripChars(s3, {" ", "."})
    IN  IF s4 = <<>> THEN Untitled ELSE s4

(***************************************************************************)
(* SpecSlug: sanitize_filename_component applied to any short string.      *)
(***************************************************************************)
SlugAlphabet == {"a", "n", "-", ".", " ", "\t", "\n", "\r", "/", "\\", "<", "*"}

InitSlug ==
    /\ pc = "slug_call"
    /\ arg \in StrsUpTo(SlugAlphabet, MaxStrLen)
    /\ arg2 = <<>>
    /\ ret = <<>>
    /\ ret2 = <<>>
    /\ IngestUnused
    /\ RebuildUnused

Sanitize ==
    /\ pc = "slug_call"
    /\ ret' = sanitize_filename_component(arg)
    /\ pc' = "slug_done"
    /\ UNCHANGED <<arg, arg2, ret2>>
    /\ UNCHANGED ingestVars
    /\ UNCHANGED rebuildVars

NextSlug == Sanitize

SpecSlug == InitSlug /\ [][NextSlug]_vars

\* the characters the slug must not contain
Disallowed == {"<", ">", ":", "\"", "/", "\\", "|", "?", "*", "\n", "\r", "\t"}

\* the title, trimmed, holds only unsafe printable characters and dots
OnlyUnsafe(s) == Range(Strip(s)) \subseteq {"<", ">", ":", "\"", "/", "\\", "|", "?", "*", "."}

\* C8: for every title the slug holds none of the disallowed characters and is
\* never empty; it is the placeholder "untitled" when nothing else remains.
C8_SlugSafeNonEmpty ==
    pc = "slug_done" =>
        /\ ret # <<>>
        /\ Range(ret) \cap Disallowed = {}
        /\ (OnlyUnsafe(arg) => ret = Untitled)

\* a title made only of unsafe characters, whitespace and dots was sanitized
C8_Witness ==
    /\ pc = "slug_done"
    /\ arg = <<"/", ".", "\t">>
    /\ ret = Untitled

(***************************************************************************)
(* generate_notes.py: parse_txt and the strptime call it makes             *)
(***************************************************************************)
Digits == {"0", "1", "2", "3", "4", "5", "6", "7", "8", "9"}

DigitVal(c) ==
    CASE c = "0" -> 0 [] c = "1" -> 1 [] c = "2" -> 2 [] c = "3" -> 3 [] c = "4" -> 4
      [] c = "5" -> 5 [] c = "6" -> 6 [] c = "7" -> 7 [] c = "8" -> 8 [] c = "9" -> 9

\* the character of s at position i, or "" past its end
At(s, i) == IF i >= 1 /\ i <= Len(s) THEN s[i] ELSE ""

IsLeap(y) == (y % 4 = 0 /\ y % 100 # 0) \/ y % 400 = 0

DaysInMonth(y, m) ==
    IF m = 2 THEN (IF IsLeap(y) THEN 29 ELSE 28)
    ELSE IF m \in {4, 6, 9, 11} THEN 30 ELSE 31

\* The lengths, in the order the regex tries them, that strptime's %m
\* (1[0-2]|0[1-9]|[1-9]) can match at position i of s.
MonthLens(s, i) ==
    (IF \/ (At(s, i) = "1" /\ At(s, i + 1) \in {"0", "1", "2"})
        \/ (At(s, i) = "0" /\ At(s, i + 1) \in Digits \ {"0"})
     THEN <<2>> ELSE <<>>)
    \o (IF At(s, i) \in Digits \ {"0"} THEN <<1>> ELSE <<>>)

\* The length of the first alternative of strptime's %d
\* (3[0-1]|[1-2]\d|0[1-9]|[1-9]| [1-9]) that matches at position i; 0 if none.
DayLen(s, i) ==
    IF At(s, i) = "3" /\ At(s, i + 1) \in {"0", "1"} THEN 2
    ELSE IF At(s, i) \in {"1", "2"} /\ At(s, i + 1) \in Digits THEN 2
    ELSE IF At(s, i) = "0" /\ At(s, i + 1) \in Digits \ {"0"} THEN 2
    ELSE IF At(s, i) \in Digits \ {"0"} THEN 1
    ELSE IF At(s, i) = " " /\ At(s, i + 1) \in Digits \ {"0"} THEN 2
    ELSE 0

\* the number a run of digit characters (and blanks) denotes
RECURSIVE NumVal(_)
NumVal(s) ==
    IF s = <<>> THEN 0
    ELSE IF s[Len(s)] = " " THEN NumVal(SubSeq(s, 1, Len(s) - 1))
    ELSE 10 * NumVal(SubSeq(s, 1, Len(s) - 1)) + DigitVal(s[Len(s)])

strptime_Fail == [ok |-> FALSE]

\* datetime.strptime(s, "%Y-%m-%d"): the format's regex
\* (\d\d\d\d)-(%m)-(%d) is matched at the start of s with backtracking, the
\* match must consume all of s, and the date must exist (year >= 1).
strptime(s) ==
    IF ~ (/\ \A i \in 1..4 : At(s, i) \in Digits
          /\ At(s, 5) = "-")
    THEN strptime_Fail
    ELSE LET good == SelectSeq(MonthLens(s, 6),
                               LAMBDA n : At(s, 6 + n) = "-" /\ DayLen(s, 7 + n) > 0)
         IN  IF good = <<>> THEN strptime_Fail
             ELSE LET ml == Head(good)
                      dl == DayLen(s, 7 + ml)
                      y == NumVal(SubSeq(s, 1, 4))
                      m == NumVal(SubSeq(s, 6, 5 + ml))
                      d == NumVal(SubSeq(s, 7 + ml, 6 + ml + dl))
                  IN  IF 6 + ml + dl # Len(s) THEN strptime_Fail
                      ELSE IF y < 1 \/ d > DaysInMonth(y, m) THEN strptime_Fail
                      ELSE [ok |-> TRUE, y |-> y, m |-> m, d |-> d]

RECURSIVE SplitLines(_, _)
\* str.splitlines(): cur is the line being read; a final line break opens no
\* empty last line, and "\r\n" is one line break.
SplitLines(s, cur) ==
    IF s = <<>> THEN (IF cur = <<>> THEN <<>> ELSE <<cur>>)
    ELSE IF Head(s) = "\r" /\ Len(s) >= 2 /\ s[2] = "\n"
         THEN <<cur>> \o SplitLines(Tail(Tail(s)), <<>>)
    ELSE IF Head(s) \in {"\n", "\r"}
         THEN <<cur>> \o SplitLines(Tail(s), <<>>)
    ELSE SplitLines(Tail(s), Append(cur, Head(s)))

DotHtml == <<".", "h", "t", "m", "l">>
NotesPrefix == <<".", "/", "n", "o", "t", "e", "s", "/">>

parse_Fail == [ok |-> FALSE]

RECURSIVE Paragraphs(_)
\* [ln.strip() for ln in body_lines if ln.strip()]
Paragraphs(lines) ==
    IF lines = <<>> THEN <<>>
    ELSE (IF Strip(Head(lines)) = <<>> THEN <<>> ELSE <<Strip(Head(lines))>>)
         \o Paragraphs(Tail(lines))

html_filename_NoSeparator(date_str, slug) == date_str \o slug \o DotHtml

\* f"{date_str}-{slug}.html"
html_filename(date_str, slug) == date_str \o <<"-">> \o slug \o DotHtml

parse_txt(raw) ==
    LET lines == SplitLines(StripChars(raw, {"BOM"}), <<>>)
    IN  IF Len(lines) < 2 THEN parse_Fail
        ELSE LET title == Strip(lines[1])
                 date_str == Strip(lines[2])
             IN  IF ~ strptime(date_str).ok THEN parse_Fail
                 ELSE LET fn == html_filename(date_str,
                                              sanitize_filename_component(title))
                      IN  [ok |-> TRUE,
                           title |-> title,
                           date |-> date_str,
                           body_paragraphs |-> Paragraphs(SubSeq(lines, 3, Len(lines))),
                           html_filename |-> fn,
                           href |-> NotesPrefix \o fn]

(***************************************************************************)
(* SpecParse: parse_txt applied to a raw file made of a title line, a date *)
(* line and an optional body.                                              *)
(***************************************************************************)
YearParts == {<<"2", "0", "2", "4">>, <<"2", "0", "2", "3">>, <<"1", "9", "0", "0">>,
              <<"2", "0", "2">>, <<"2", "0", "2", "4", "5">>}
MonthParts == {<<"0", "2">>, <<"2">>, <<"1", "2">>, <<"1", "3">>, <<"0", "0">>,
               <<"0", "4">>, <<"1">>}
DayParts == {<<"2", "9">>, <<"3", "0">>, <<"3", "1">>, <<"3", "2">>, <<"0", "5">>,
             <<"5">>, <<" ", "5">>, <<"0", "0">>, <<"0", "5", "0">>, <<"1", "x">>}
SepParts == {<<"-">>, <<"/">>}
PadParts == {<<>>, <<" ">>}

DateLines ==
    {p \o y \o s \o m \o s \o d \o p :
        y \in YearParts, m \in MonthParts, d \in DayParts, s \in SepParts, p \in PadParts}
    \cup {<<>>, <<"x">>}

ParseTitles == {<<"a">>, <<"BOM", "a", " ", "b">>, <<" ", "/">>}
ParseBodies == {<<>>, <<"\n", "x", " ", "\n", " ", "\n", "y">>}

RawTexts ==
    {t \o <<"\n">> \o d \o b : t \in ParseTitles, d \in DateLines, b \in ParseBodies}
    \cup {<<>>, <<"a">>, <<"a", "\n">>}

InitParse ==
    /\ pc = "parse_call"
    /\ arg \in RawTexts
    /\ arg2 = <<>>
    /\ ret = <<>>
    /\ ret2 = <<>>
    /\ IngestUnused
    /\ RebuildUnused

ParseTxt ==
    /\ pc = "parse_call"
    /\ ret' = parse_txt(arg)
    /\ pc' = "parse_done"
    /\ UNCHANGED <<arg, arg2, ret2>>
    /\ UNCHANGED ingestVars
    /\ UNCHANGED rebuildVars

NextParse == ParseTxt

SpecParse == InitParse /\ [][NextParse]_vars

\* the trimmed date line of a raw text with at least two lines
DateLineOf(raw) == Strip(SplitLines(StripChars(raw, {"BOM"}), <<>>)[2])

\* a strict YYYY-MM-DD string: 4-digit year, 2-digit month, 2-digit day
StrictYMD(s) ==
    /\ Len(s) = 10
    /\ \A i \in {1, 2, 3, 4, 6, 7, 9, 10} : s[i] \in Digits
    /\ s[5] = "-" /\ s[8] = "-"

\* a strict YYYY-MM-DD string that denotes a date of the calendar
ValidCalendarDate(s) ==
    /\ StrictYMD(s)
    /\ LET y == NumVal(SubSeq(s, 1, 4))
           m == NumVal(SubSeq(s, 6, 7))
           d == NumVal(SubSeq(s, 9, 10))
       IN  y >= 1 /\ m \in 1..12 /\ d \in 1..DaysInMonth(y, m)

\* C6: parse_txt succeeds on the date line exactly when the trimmed line is a
\* strict YYYY-MM-DD string denoting a valid calendar date.
C6_StrictDateExactly ==
    (pc = "parse_done" /\ Len(SplitLines(StripChars(arg, {"BOM"}), <<>>)) >= 2) =>
        (ret.ok <=> ValidCalendarDate(DateLineOf(arg)))

(***************************************************************************)
(* SpecPair: parse_txt applied to two raw notes.                           *)
(***************************************************************************)
PairAlphabet == {"a", "1", "/", " ", "."}
PairDates == {<<"2", "0", "2", "4", "-", "1", "-", "1">>,
              <<"2", "0", "2", "4", "-", "1", "-", "1", "1">>,
              <<"2", "0", "2", "4", "-", "0", "1", "-", "0", "1">>}
PairRaws ==
    {t \o <<"\n">> \o d : t \in StrsUpTo(PairAlphabet, MaxPairLen), d \in PairDates}

InitPair ==
    /\ pc = "pair_call"
    /\ arg \in PairRaws
    /\ arg2 \in PairRaws
    /\ ret = <<>>
    /\ ret2 = <<>>
    /\ IngestUnused
    /\ RebuildUnused

ParsePair ==
    /\ pc = "pair_call"
    /\ ret' = parse_txt(arg)
    /\ ret2' = parse_txt(arg2)
    /\ pc' = "pair_done"
    /\ UNCHANGED <<arg, arg2>>
    /\ UNCHANGED ingestVars
    /\ UNCHANGED rebuildVars

NextPair == ParsePair

SpecPair == InitPair /\ [][NextPair]_vars

\* C7 as claimed: two raw notes whose (date, title) pairs differ never derive
\* the same filename.
C7_UniquePerDateTitle ==
    (pc = "pair_done" /\ ret.ok /\ ret2.ok /\ <<ret.date, ret.title>> # <<ret2.date, ret2.title>>)
        => ret.html_filename # ret2.html_filename

\* C7 as amended: two raw notes derive the same filename exactly when their
\* date strings are equal and their titles sanitize to the same slug.
C7_UniquePerDateSlug ==
    (pc = "pair_done" /\ ret.ok /\ ret2.ok) =>
        (ret.html_filename = ret2.html_filename
            <=> /\ ret.date = ret2.date
                /\ sanitize_filename_component(ret.title)
                     = sanitize_filename_component(ret2.title))

\* two notes of one date whose titles differ and sanitize alike were parsed
C7_Witness ==
    /\ pc = "pair_done"
    /\ ret.ok /\ ret2.ok
    /\ ret.date = ret2.date
    /\ ret.title = <<"a", "/">>
    /\ ret2.title = <<"a">>
    /\ ret.html_filename = ret2.html_filename

(***************************************************************************)
(* generate_notes.py: render_note_html                                     *)
(***************************************************************************)
\* html.escape of one character (quote=True)
EscapeChar(c) ==
    CASE c = "&" -> <<"&", "a", "m", "p", ";">>
      [] c = "<" -> <<"&", "l", "t", ";">>
      [] c = ">" -> <<"&", "g", "t", ";">>
      [] c = "\"" -> <<"&", "q", "u", "o", "t", ";">>
      [] c = "'" -> <<"&", "#", "x", "2", "7", ";">>
      [] OTHER -> <<c>>

RECURSIVE escape(_)
escape(s) == IF s = <<>> THEN <<>> ELSE EscapeChar(Head(s)) \o escape(Tail(s))

\* the paragraph written for a note without body, <p>（正文为空）</p>
EmptyBody == <<"(", "e", "m", "p", "t", "y", ")">>

\* The article: its <h1>, its <p class="meta"> and its paragraphs; the rest of
\* the page is the same text for every note.
render_note_html(note) ==
    [h1 |-> escape(note.title),
     meta |-> escape(note.date),
     paras |-> IF note.body_paragraphs # <<>>
               THEN [i \in 1..Len(note.body_paragraphs) |-> escape(note.body_paragraphs[i])]
               ELSE <<EmptyBody>>]

(***************************************************************************)
(* generate_notes.py: the index document and the functions that patch it   *)
(***************************************************************************)
\* A token of the index document.  kind is one of
\*   "SEC"  <section class="card">      "ESEC"  </section>
\*   "H2R"  <h2>最近更新</h2>            "H2O"   another heading
\*   "UL"   <ul class="list">           "EUL"   </ul>
\*   "WS"   whitespace                  "TXT"   other text
\*   "LI"   a list entry <li><a href=...>...</a>...</li>
\*   "START", "END"  the AUTOGEN_RECENT_START / AUTOGEN_RECENT_END comments
\* href and label are the texts an entry (or other text) carries.
Tok(k) == [kind |-> k, href |-> <<>>, label |-> <<>>, tag |-> <<>>]

\* first position in from..to of doc holding a token of kind k; 0 if none
FirstKind(doc, k, from, to) ==
    LET S == {i \in from..to : i <= Len(doc) /\ doc[i].kind = k}
    IN  IF S = {} THEN 0 ELSE CHOOSE i \in S : \A j \in S : i <= j

RECURSIVE SpacesFrom(_, _)
\* number of whitespace tokens of doc from position i on
SpacesFrom(doc, i) ==
    IF i <= Len(doc) /\ doc[i].kind = "WS" THEN 1 + SpacesFrom(doc, i + 1) ELSE 0

extract_Fail == [ok |-> FALSE]

\* the list looked for in the whole document instead of the card block
extract_ListAnywhere(doc) ==
    LET i == FirstKind(doc, "SEC", 1, Len(doc))
        j == IF i = 0 THEN 0 ELSE FirstKind(doc, "H2R", i + 1, Len(doc))
        k == IF j = 0 THEN 0 ELSE FirstKind(doc, "ESEC", j + 1, Len(doc))
        u == IF k = 0 THEN 0 ELSE FirstKind(doc, "UL", 1, Len(doc))
        e == IF u = 0 THEN 0 ELSE FirstKind(doc, "EUL", u + 1, Len(doc))
    IN  IF k = 0 \/ e = 0 THEN extract_Fail
        ELSE [ok |-> TRUE,
              before_ul |-> SubSeq(doc, 1, u),
              ul_inner |-> SubSeq(doc, u + 1, e - 1),
              after_ul |-> SubSeq(doc, e, Len(doc))]

\* The card regex <section class="card">.*?<h2>\s*最近更新\s*</h2>(.*?)</section>
\* with re.S: from the first card opening, lazily to the first following
\* heading 最近更新, lazily to the first following </section>.  In that block,
\* (<ul class="list">\s*)(.*?)(\s*</ul>): the first list opening with the
\* whitespace after it, lazily to the first following </ul>.
extract_recent_updates_ul(doc) ==
    LET i == FirstKind(doc, "SEC", 1, Len(doc))
        j == IF i = 0 THEN 0 ELSE FirstKind(doc, "H2R", i + 1, Len(doc))
        k == IF j = 0 THEN 0 ELSE FirstKind(doc, "ESEC", j + 1, Len(doc))
        u == IF k = 0 THEN 0 ELSE FirstKind(doc, "UL", i, k)
        e == IF u = 0 THEN 0 ELSE FirstKind(doc, "EUL", u + 1, k)
    IN  IF k = 0 \/ e = 0 THEN extract_Fail
        ELSE LET open_end == u + SpacesFrom(SubSeq(doc, 1, e - 1), u + 1)
                 close_start ==
                     CHOOSE c \in (open_end + 1)..e :
                        /\ \A x \in c..(e - 1) : doc[x].kind = "WS"
                        /\ \A c2 \in (open_end + 1)..(c - 1) :
                              \E x \in c2..(e - 1) : doc[x].kind # "WS"
             IN  [ok |-> TRUE,
                  before_ul |-> SubSeq(doc, 1, open_end),
                  ul_inner |-> SubSeq(doc, open_end + 1, close_start - 1),
                  after_ul |-> SubSeq(doc, close_start, Len(doc))]

\* needle in index_html: the text occurs in some token of the document
InDoc(needle, doc) ==
    \E i \in 1..Len(doc) :
        IsSubstring(needle, doc[i].href) \/ IsSubstring(needle, doc[i].label)

index_has_href_ForwardOnly(doc, href) == InDoc(Replace(href, <<"\\">>, <<"/">>), doc)

index_has_href(doc, href) ==
    LET h == Replace(href, <<"\\">>, <<"/">>)
        alt == Replace(Replace(h, <<".", "/">>, <<".", "\\">>), <<"/">>, <<"\\">>)
    IN  InDoc(h, doc) \/ InDoc(alt, doc)

\* <li><a href="{href}">{date}｜{escape(title)}</a><span class="tag">随笔</span></li>
build_li(note) ==
    [kind |-> "LI",
     href |-> note.href,
     label |-> note.date \o <<"UFF5C">> \o escape(note.title),
     tag |-> <<"U968F", "U7B14">>]

\* code point of a character of a sort key (a date string or a tag)
Cp(c) ==
    CASE c = " " -> 32 [] c = "-" -> 45
      [] c \in Digits -> 48 + DigitVal(c)
      [] c = "U5B50" -> 23376 [] c = "U5E9F" -> 24223 [] c = "U6BB5" -> 27573
      [] c = "U6F2B" -> 28459 [] c = "U753B" -> 30011 [] c = "U7B14" -> 31508
      [] c = "U82F1" -> 33521 [] c = "U8BDD" -> 35805 [] c = "U8BED" -> 35821
      [] c = "U968F" -> 38543

RECURSIVE StrLess(_, _)
\* a < b for Python strings
StrLess(a, b) ==
    IF b = <<>> THEN FALSE
    ELSE IF a = <<>> THEN TRUE
    ELSE IF Head(a) # Head(b) THEN Cp(Head(a)) < Cp(Head(b))
    ELSE StrLess(Tail(a), Tail(b))

RECURSIVE InsertDesc(_, _)
\* n placed in the date-descending list after the entries not smaller than it
InsertDesc(sorted, n) ==
    IF sorted = <<>> THEN <<n>>
    ELSE IF StrLess(Head(sorted).date, n.date) THEN <<n>> \o sorted
    ELSE <<Head(sorted)>> \o InsertDesc(Tail(sorted), n)

RECURSIVE SortByDateDesc(_)
\* list.sort(key=lambda n: n.date, reverse=True): stable
SortByDateDesc(ns) ==
    IF ns = <<>> THEN <<>>
    ELSE InsertDesc(SortByDateDesc(SubSeq(ns, 1, Len(ns) - 1)), ns[Len(ns)])

(***************************************************************************)
(* generate_notes.py: main, one run of the ingest pipeline.  index.html is *)
(* taken to exist.                                                         *)
(***************************************************************************)
\* the texts of the raw files of the model
RawA == <<"a", "\n", "2", "0", "2", "4", "-", "0", "3", "-", "0", "5", "\n", "x", "<">>
RawASlash == <<"a", "/", "\n", "2", "0", "2", "4", "-", "0", "3", "-", "0", "5">>
RawBadDate == <<"b", "\n", "2", "0", "2", "4", "-", "0", "2", "-", "3", "0">>
RawB == <<"b", "\n", "2", "0", "2", "4", "-", "0", "6", "-", "0", "1">>
RawOneLine == <<"c">>
IngestRaws == {RawA, RawASlash, RawBadDate, RawB, RawOneLine}

RECURSIVE SeqsUpTo(_, _)
\* every sequence over S of length at most n
SeqsUpTo(S, n) ==
    IF n = 0 THEN {<<>>}
    ELSE LET P == SeqsUpTo(S, n - 1)
         IN  P \cup {Append(q, x) : q \in {t \in P : Len(t) = n - 1}, x \in S}

\* an article written before the first run, by hand or by an older version
OldArticle == [h1 |-> <<"o", "l", "d">>, meta |-> <<>>, paras |-> <<>>]

FileA == parse_txt(RawA).html_filename
FileB == parse_txt(RawB).html_filename

\* the states of notes/ before the first run
InitialNotes ==
    {<<>>, FileA :> OldArticle, FileB :> OldArticle,
     (FileA :> OldArticle) @@ (FileB :> OldArticle)}

\* the entry of an article as an index document may already hold it
Entry(h) == [kind |-> "LI", href |-> h, label |-> <<"x">>, tag |-> <<>>]
Mention(h) == [kind |-> "TXT", href |-> <<>>, label |-> h, tag |-> <<>>]
HrefA == NotesPrefix \o FileA
HrefABack == <<".", "\\", "n", "o", "t", "e", "s", "\\">> \o FileA
HrefB == NotesPrefix \o FileB

\* the section 最近更新 whose list holds the entries es
RecentCard(es) ==
    <<Tok("SEC"), Tok("H2R"), Tok("UL"), Tok("WS")>> \o es
        \o <<Tok("WS"), Tok("EUL"), Tok("ESEC")>>

\* another section, with a list of its own
OtherCard == <<Tok("SEC"), Tok("H2O"), Tok("UL"), Entry(HrefB), Tok("EUL"), Tok("ESEC")>>

\* the index documents of the model
IngestIndexDocs ==
    {<<>>,
     <<Tok("SEC"), Tok("H2O"), Tok("ESEC")>>,
     <<Tok("SEC"), Tok("H2R"), Tok("ESEC")>>,
     <<Tok("SEC"), Tok("H2R"), Tok("UL"), Tok("ESEC"), Tok("EUL")>>,
     RecentCard(<<>>),
     RecentCard(<<Entry(HrefA)>>),
     RecentCard(<<Entry(HrefABack), Tok("WS"), Entry(HrefB)>>),
     <<Mention(HrefA)>> \o RecentCard(<<>>),
     OtherCard \o <<Tok("SEC"), Tok("H2R"), Tok("ESEC")>>,
     OtherCard \o RecentCard(<<>>)}

InitIngest ==
    /\ pc = "idle"
    /\ FnUnused
    /\ raw_dir \in SeqsUpTo(IngestRaws, MaxRaw)
    /\ notes_dir \in InitialNotes
    /\ index \in IngestIndexDocs
    /\ queue = <<>>
    /\ index_html = <<>>
    /\ new_notes = <<>>
    /\ exit = "none"
    /\ runs = 0
    /\ notes_dir0 = <<>>
    /\ index0 = <<>>
    /\ RebuildUnused

\* main, lines 183-193: list raw/ in sorted order, read index.html
IngestStart ==
    /\ pc = "idle"
    /\ runs < MaxRuns
    /\ runs' = runs + 1
    /\ notes_dir0' = notes_dir
    /\ index0' = index
    /\ new_notes' = <<>>
    /\ IF raw_dir = <<>>
       THEN /\ pc' = "idle"
            /\ exit' = "ok"
            /\ UNCHANGED <<queue, index_html>>
       ELSE /\ pc' = "loop"
            /\ exit' = "running"
            /\ queue' = raw_dir
            /\ index_html' = index
    /\ UNCHANGED <<raw_dir, notes_dir, index>>
    /\ UNCHANGED fnVars
    /\ UNCHANGED rebuildVars

\* what one iteration of the loop does when a parse error ends the run
IngestFile_AbortOnError ==
    /\ pc = "loop"
    /\ queue # <<>>
    /\ LET note == parse_txt(Head(queue))
       IN  IF ~ note.ok
           THEN /\ queue' = <<>>
                /\ pc' = "after_loop"
                /\ UNCHANGED <<notes_dir, new_notes>>
           ELSE /\ queue' = Tail(queue)
                /\ pc' = IF Tail(queue) = <<>> THEN "after_loop" ELSE "loop"
                /\ IF note.html_filename \in DOMAIN notes_dir
                   THEN UNCHANGED <<notes_dir, new_notes>>
                   ELSE /\ notes_dir' = (note.html_filename :> render_note_html(note)) @@ notes_dir
                        /\ new_notes' = Append(new_notes, note)
    /\ UNCHANGED <<raw_dir, index, index_html, exit, runs, notes_dir0, index0>>
    /\ UNCHANGED fnVars
    /\ UNCHANGED rebuildVars

\* what one iteration of the loop does when it writes the article in any case
IngestFile_Overwrite ==
    /\ pc = "loop"
    /\ queue # <<>>
    /\ queue' = Tail(queue)
    /\ pc' = IF Tail(queue) = <<>> THEN "after_loop" ELSE "loop"
    /\ LET note == parse_txt(Head(queue))
       IN  IF ~ note.ok
           THEN UNCHANGED <<notes_dir, new_notes>>
           ELSE /\ notes_dir' = (note.html_filename :> render_note_html(note)) @@ notes_dir
                /\ new_notes' = Append(new_notes, note)
    /\ UNCHANGED <<raw_dir, index, index_html, exit, runs, notes_dir0, index0>>
    /\ UNCHANGED fnVars
    /\ UNCHANGED rebuildVars

\* main, lines 195-208: one iteration of the loop over the raw files
IngestFile ==
    /\ pc = "loop"
    /\ queue # <<>>
    /\ queue' = Tail(queue)
    /\ pc' = IF Tail(queue) = <<>> THEN "after_loop" ELSE "loop"
    /\ LET note == parse_txt(Head(queue))
       IN  IF ~ note.ok
           THEN UNCHANGED <<notes_dir, new_notes>>
           ELSE IF note.html_filename \in DOMAIN notes_dir
           THEN UNCHANGED <<notes_dir, new_notes>>
           ELSE /\ notes_dir' = (note.html_filename :> render_note_html(note)) @@ notes_dir
                /\ new_notes' = Append(new_notes, note)
    /\ UNCHANGED <<raw_dir, index, index_html, exit, runs, notes_dir0, index0>>
    /\ UNCHANGED fnVars
    /\ UNCHANGED rebuildVars

\* [n for n in new_notes if not index_has_href(index_html, n.href)]
to_insert(doc, ns) == SelectSeq(ns, LAMBDA n : ~ index_has_href(doc, n.href))

\* the document written at line 221
patched_index(doc, ns) ==
    LET ex == extract_recent_updates_ul(doc)
        sorted == SortByDateDesc(to_insert(doc, ns))
    IN  ex.before_ul \o [i \in 1..Len(sorted) |-> build_li(sorted[i])]
            \o ex.ul_inner \o ex.after_ul

\* main, lines 210-227: the update of index.html
IngestIndex ==
    /\ pc = "after_loop"
    /\ pc' = "idle"
    /\ IF new_notes = <<>>
       THEN /\ exit' = "ok"
            /\ UNCHANGED index
       ELSE IF ~ extract_recent_updates_ul(index_html).ok
       THEN /\ exit' = "fatal"
            /\ UNCHANGED index
       ELSE /\ exit' = "ok"
            /\ index' = IF to_insert(index_html, new_notes) # <<>>
                        THEN patched_index(index_html, new_notes)
                        ELSE index
    /\ UNCHANGED <<raw_dir, notes_dir, queue, index_html, new_notes, runs, notes_dir0, index0>>
    /\ UNCHANGED fnVars
    /\ UNCHANGED rebuildVars

\* between two runs the author adds a raw file
AddRawFile ==
    /\ pc = "idle"
    /\ runs >= 1
    /\ runs < MaxRuns
    /\ Len(raw_dir) < MaxRaw
    /\ \E r \in IngestRaws, p \in 0..Len(raw_dir) :
          raw_dir' = SubSeq(raw_dir, 1, p) \o <<r>> \o SubSeq(raw_dir, p + 1, Len(raw_dir))
    /\ UNCHANGED <<pc, notes_dir, index, queue, index_html, new_notes, exit, runs,
                 notes_dir0, index0>>
    /\ UNCHANGED fnVars
    /\ UNCHANGED rebuildVars

NextIngest == IngestStart \/ IngestFile \/ IngestIndex \/ AddRawFile

SpecIngest == InitIngest /\ [][NextIngest]_vars

\* C1: once a file exists in notes/, no step of an ingest run changes its
\* content or removes it.
C1_ExistingNeverChanged ==
    [][\A f \in DOMAIN notes_dir : f \in DOMAIN notes_dir' /\ notes_dir'[f] = notes_dir[f]]_vars

\* a second run has read the raw files of an article that existed before the
\* first run and of an article the first run rendered, and changed neither
C1_Witness ==
    /\ runs = 2 /\ pc = "after_loop"
    /\ RawA \in Range(raw_dir) /\ RawB \in Range(raw_dir)
    /\ FileA \in DOMAIN notes_dir /\ notes_dir[FileA] = OldArticle
    /\ FileB \in DOMAIN notes_dir /\ notes_dir[FileB] = render_note_html(parse_txt(RawB))
    /\ notes_dir = notes_dir0

\* the backslash spelling of a path
BackSpelling(h) == [i \in 1..Len(h) |-> IF h[i] = "/" THEN "\\" ELSE h[i]]

\* the path h appears somewhere in the document, in either spelling
Appears(h, doc) == InDoc(h, doc) \/ InDoc(BackSpelling(h), doc)

\* number of list entries of the document that link to h, in either spelling
EntryCount(h, doc) ==
    Cardinality({i \in 1..Len(doc) :
                    doc[i].kind = "LI" /\ doc[i].href \in {h, BackSpelling(h)}})

\* the hrefs the raw files of the model can derive
ModelHrefs == {parse_txt(r).href : r \in {x \in IngestRaws : parse_txt(x).ok}}

\* C2: no step inserts a list entry for an href that already appears anywhere
\* in the index document, in either spelling; no href gains a second entry.
C2_NoDuplicateEntry ==
    [][\A h \in ModelHrefs :
          /\ Appears(h, index) => EntryCount(h, index') = EntryCount(h, index)
          /\ EntryCount(h, index') <= IF EntryCount(h, index) = 0 THEN 1
                                      ELSE EntryCount(h, index)]_vars

\* a run rendered the article of an href that the index held in the backslash
\* spelling only, and ended without inserting it
C2_Witness ==
    /\ pc = "idle" /\ exit = "ok"
    /\ \E i \in 1..Len(new_notes) : new_notes[i].href = HrefA
    /\ ~ InDoc(HrefA, index0) /\ InDoc(HrefABack, index0)
    /\ EntryCount(HrefA, index) = 1

\* the articles the raw files of the current run with this file name render to
RendersOf(fn) ==
    {render_note_html(parse_txt(r)) :
        r \in {x \in Range(raw_dir) : parse_txt(x).ok /\ parse_txt(x).html_filename = fn}}

\* C3: when the loop of a run ends, every raw file that parses has its article
\* in notes/, rendered by this run if it did not exist before, whatever raw
\* files failed to parse before or after it.
C3_ParseFailureIsLocal ==
    pc = "after_loop" =>
        \A i \in 1..Len(raw_dir) :
            LET note == parse_txt(raw_dir[i])
            IN  note.ok =>
                   /\ note.html_filename \in DOMAIN notes_dir
                   /\ (note.html_filename \notin DOMAIN notes_dir0
                          => notes_dir[note.html_filename] \in RendersOf(note.html_filename))

\* a run over a failing raw file between two good ones rendered both
C3_Witness ==
    /\ pc = "after_loop"
    /\ raw_dir = <<RawA, RawBadDate, RawB>>
    /\ notes_dir0 = <<>>
    /\ DOMAIN notes_dir = {FileA, FileB}

\* The structure the run looks for: the block from the first card opening
\* through the first heading 最近更新 after it to the next section end, holding
\* a list opening followed by a list end.
RecentListLocated(doc) ==
    \E i, j, k \in 1..Len(doc) :
        /\ i < j /\ j < k
        /\ doc[i].kind = "SEC" /\ \A x \in 1..(i - 1) : doc[x].kind # "SEC"
        /\ doc[j].kind = "H2R" /\ \A x \in (i + 1)..(j - 1) : doc[x].kind # "H2R"
        /\ doc[k].kind = "ESEC" /\ \A x \in (j + 1)..(k - 1) : doc[x].kind # "ESEC"
        /\ \E u, e \in i..k : u < e /\ doc[u].kind = "UL" /\ doc[e].kind = "EUL"

TagSuibi == <<"U968F", "U7B14">>      \* 随笔
TagFeihua == <<"U5E9F", "U8BDD">>     \* 废话
TagSuihua == <<"U968F", "U753B">>     \* 随画
TagManhua == <<"U6F2B", "U753B">>     \* 漫画
TagDuanzi == <<"U6BB5", "U5B50">>     \* 段子
TagYingyu == <<"U82F1", "U8BED">>     \* 英语
KNOWN_TAGS == <<TagSuibi, TagFeihua, TagSuihua, TagManhua, TagDuanzi, TagYingyu>>

\* the entities html.escape writes, and the characters they stand for
Entities ==
    <<[text |-> <<"&", "a", "m", "p", ";">>, char |-> "&"],
      [text |-> <<"&", "l", "t", ";">>, char |-> "<"],
      [text |-> <<"&", "g", "t", ";">>, char |-> ">"],
      [text |-> <<"&", "q", "u", "o", "t", ";">>, char |-> "\""],
      [text |-> <<"&", "#", "x", "2", "7", ";">>, char |-> "'"]>>

RECURSIVE unescape(_)
\* html.unescape, on the entities above
unescape(s) ==
    IF s = <<>> THEN <<>>
    ELSE LET hits == SelectSeq(Entities,
                               LAMBDA en : /\ Len(en.text) <= Len(s)
                                           /\ SubSeq(s, 1, Len(en.text)) = en.text)
         IN  IF hits # <<>>
             THEN <<hits[1].char>> \o unescape(SubSeq(s, Len(hits[1].text) + 1, Len(s)))
             ELSE <<Head(s)>> \o unescape(Tail(s))

RECURSIVE RemoveTags(_)
\* re.sub(r"<[^>]+>", "", s)
RemoveTags(s) ==
    IF s = <<>> THEN <<>>
    ELSE IF Head(s) = "<"
            /\ \E j \in 3..Len(s) : s[j] = ">" /\ \A x \in 2..(j - 1) : s[x] # ">"
         THEN LET j == CHOOSE j \in 3..Len(s) :
                          s[j] = ">" /\ \A x \in 2..(j - 1) : s[x] # ">"
              IN  RemoveTags(SubSeq(s, j + 1, Len(s)))
         ELSE <<Head(s)>> \o RemoveTags(Tail(s))

strip_html(s) == Strip(RemoveTags(unescape(s)))

\* s holds \d{4}-\d{2}-\d{2} at position i
DateAt(s, i) ==
    /\ i + 9 <= Len(s)
    /\ \A x \in {0, 1, 2, 3, 5, 6, 8, 9} : s[i + x] \in Digits
    /\ s[i + 4] = "-" /\ s[i + 7] = "-"

\* RE_DATE.search(s): the first match, or <<>>
RE_DATE_search(s) ==
    LET S == {i \in 1..Len(s) : DateAt(s, i)}
    IN  IF S = {} THEN <<>>
        ELSE LET i == CHOOSE i \in S : \A j \in S : i <= j
             IN  SubSeq(s, i, i + 9)

\* RE_TAG.search(s): the leftmost known tag, or <<>>
RE_TAG_search(s) ==
    LET S == {i \in 1..(Len(s) - 1) :
                 \E t \in 1..Len(KNOWN_TAGS) : SubSeq(s, i, i + 1) = KNOWN_TAGS[t]}
    IN  IF S = {} THEN <<>>
        ELSE LET i == CHOOSE i \in S : \A j \in S : i <= j
             IN  SubSeq(s, i, i + 1)

\* the absent <h1> or <p class="meta"> element of an article
Absent == <<"ABSENT">>

Epoch == <<"1", "9", "7", "0", "-", "0", "1", "-", "0", "1">>

\* fp.stem of a name that ends in .html
Stem(name) == SubSeq(name, 1, Len(name) - Len(DotHtml))

\* parse_post, lines 58-63: the date string, from the meta text, else from the
\* start of the file name, else the epoch
post_date(name, article) ==
    LET meta_text == IF article.meta = Absent THEN <<>> ELSE strip_html(article.meta)
        md == RE_DATE_search(meta_text)
    IN  IF md # <<>> THEN md
        ELSE IF DateAt(name, 1) /\ At(name, 11) = "-" THEN SubSeq(name, 1, 10)
        ELSE Epoch

post_Fail == [ok |-> FALSE]

parse_post(name, article) ==
    LET title == IF article.h1 = Absent THEN Stem(name) ELSE strip_html(article.h1)
        meta_text == IF article.meta = Absent THEN <<>> ELSE strip_html(article.meta)
        date == post_date(name, article)
        mt == RE_TAG_search(meta_text)
        dt == strptime(date)
    IN  IF ~ dt.ok THEN post_Fail
        ELSE [ok |-> TRUE,
              file |-> name,
              href |-> NotesPrefix \o name,
              title |-> title,
              date |-> date,
              tag |-> IF mt # <<>> THEN mt ELSE TagSuibi,
              dt |-> 10000 * dt.y + 100 * dt.m + dt.d]

\* <li><a href="{href}">{date}｜{title}</a><span class="tag">{tag}</span></li>
li(post) ==
    [kind |-> "LI",
     href |-> post.href,
     label |-> post.date \o <<"UFF5C">> \o post.title,
     tag |-> post.tag]

(***************************************************************************)
(* rebuild.py: the aggregate documents                                     *)
(***************************************************************************)
RECURSIVE InsertByDt(_, _)
InsertByDt(sorted, p) ==
    IF sorted = <<>> THEN <<p>>
    ELSE IF Head(sorted).dt < p.dt THEN <<p>> \o sorted
    ELSE <<Head(sorted)>> \o InsertByDt(Tail(sorted), p)

RECURSIVE SortByDtDesc(_)
\* list.sort(key=lambda x: x["dt"], reverse=True): stable
SortByDtDesc(ps) ==
    IF ps = <<>> THEN <<>>
    ELSE InsertByDt(SortByDtDesc(SubSeq(ps, 1, Len(ps) - 1)), ps[Len(ps)])

RECURSIVE SortedTags(_)
\* sorted(keys): the tags of a set in ascending order
SortedTags(T) ==
    IF T = {} THEN <<>>
    ELSE LET t == CHOOSE t \in T : \A u \in T \ {t} : StrLess(t, u)
         IN  <<t>> \o SortedTags(T \ {t})

RECURSIVE FirstSeen(_, _)
\* the tags of the posts outside T, in the order they are met
FirstSeen(ps, T) ==
    IF ps = <<>> THEN <<>>
    ELSE IF Head(ps).tag \in T THEN FirstSeen(Tail(ps), T)
    ELSE <<Head(ps).tag>> \o FirstSeen(Tail(ps), T \cup {Head(ps).tag})

preferred == <<TagSuibi, TagFeihua, TagSuihua>>

\* a section of a listing: its id and heading, and the entries of its list
Section(t, ps) == [id |-> t, items |-> [i \in 1..Len(ps) |-> li(ps[i])]]

\* the tag listing with the other tags in the order they are met
build_all_html_Unsorted(ps) ==
    LET tags == preferred \o FirstSeen(ps, Range(preferred))
    IN  [pills |-> tags,
         sections |-> [i \in 1..Len(tags) |->
                          Section(tags[i],
                                  SortByDtDesc(SelectSeq(ps, LAMBDA p : p.tag = tags[i])))]]

\* The pills and the sections of all.html; the rest of the page is fixed text.
build_all_html(ps) ==
    LET others == {ps[i].tag : i \in 1..Len(ps)} \ Range(preferred)
        tags == preferred \o SortedTags(others)
    IN  [pills |-> tags,
         sections |-> [i \in 1..Len(tags) |->
                          Section(tags[i],
                                  SortByDtDesc(SelectSeq(ps, LAMBDA p : p.tag = tags[i])))]]

RECURSIVE SortedDesc(_)
\* sorted(keys, reverse=True) of a set of numbers
SortedDesc(Y) ==
    IF Y = {} THEN <<>>
    ELSE LET y == CHOOSE y \in Y : \A z \in Y : z <= y
         IN  <<y>> \o SortedDesc(Y \ {y})

\* The pills and the sections of archive.html.
build_archive_html(ps) ==
    LET year_list == SortedDesc({ps[i].dt \div 10000 : i \in 1..Len(ps)})
    IN  [pills |-> year_list,
         sections |-> [i \in 1..Len(year_list) |->
                          Section(year_list[i],
                                  SortByDtDesc(SelectSeq(ps,
                                      LAMBDA p : p.dt \div 10000 = year_list[i])))]]

RECENT_N == 8

\* seq[:n]
Slice(seq, n) == SubSeq(seq, 1, IF n < Len(seq) THEN n ELSE Len(seq))

\* the letters re.sub's template knows after a backslash, and what they give
TemplateEscapes ==
    [c \in {"n", "r", "t", "a", "b", "f", "v", "\\"} |->
        CASE c = "n" -> "\n" [] c = "r" -> "\r" [] c = "t" -> "\t" [] c = "a" -> "U0007"
          [] c = "b" -> "U0008" [] c = "f" -> "U000C" [] c = "v" -> "U000B"
          [] c = "\\" -> "\\"]

AsciiAlnum ==
    Digits \cup {"a", "b", "c", "d", "e", "f", "g", "h", "i", "j", "k", "l", "m", "n", "o",
                 "p", "q", "r", "s", "t", "u", "v", "w", "x", "y", "z", "C"}

\* the text has a backslash that re.sub's template parser rejects: a backslash
\* before a letter that is no escape, or before a digit (the pattern has no
\* group)
RECURSIVE BadTemplate(_)
BadTemplate(s) ==
    IF Len(s) < 2 THEN FALSE
    ELSE IF Head(s) = "\\"
         THEN IF s[2] \in DOMAIN TemplateEscapes THEN BadTemplate(Tail(Tail(s)))
              ELSE IF s[2] \in AsciiAlnum THEN TRUE
              ELSE BadTemplate(Tail(s))
    ELSE BadTemplate(Tail(s))

RECURSIVE ExpandTemplate(_)
\* the text re.sub writes for a replacement text its parser accepts
ExpandTemplate(s) ==
    IF s = <<>> THEN <<>>
    ELSE IF Head(s) = "\\" /\ Len(s) >= 2 /\ s[2] \in DOMAIN TemplateEscapes
         THEN <<TemplateEscapes[s[2]]>> \o ExpandTemplate(Tail(Tail(s)))
    ELSE <<Head(s)>> \o ExpandTemplate(Tail(s))

\* recent_block: the entries joined by line breaks
RECURSIVE JoinLines(_)
JoinLines(items) ==
    IF items = <<>> THEN <<>>
    ELSE IF Len(items) = 1 THEN items
    ELSE <<Head(items), Tok("WS")>> \o JoinLines(Tail(items))

RECURSIVE SubMarkers(_, _)
\* re.sub(START.*?END, replacement, doc, flags=re.S): every span from a start
\* marker to the first end marker after it is replaced
SubMarkers(doc, replacement) ==
    LET st == FirstKind(doc, "START", 1, Len(doc))
        en == IF st = 0 THEN 0 ELSE FirstKind(doc, "END", st + 1, Len(doc))
    IN  IF en = 0 THEN doc
        ELSE SubSeq(doc, 1, st - 1) \o replacement
                \o SubMarkers(SubSeq(doc, en + 1, Len(doc)), replacement)

patch_Fail == [ok |-> FALSE]

\* the entry as re.sub writes it: the template escapes of its texts expanded
Expanded(item) ==
    [item EXCEPT !.href = ExpandTemplate(item.href), !.label = ExpandTemplate(item.label)]

\* patch_index_recent: RuntimeError without both markers; re.error when the
\* replacement text is no valid template
patch_index_recent(doc, recent_posts) ==
    IF FirstKind(doc, "START", 1, Len(doc)) = 0 \/ FirstKind(doc, "END", 1, Len(doc)) = 0
    THEN patch_Fail
    ELSE LET items == [i \in 1..Len(recent_posts) |-> li(recent_posts[i])]
         IN  IF \E i \in 1..Len(items) :
                    BadTemplate(items[i].href) \/ BadTemplate(items[i].label \o <<"<">>)
             THEN patch_Fail
             ELSE [ok |-> TRUE,
                   doc |-> SubMarkers(doc, <<Tok("START"), Tok("WS")>>
                               \o JoinLines([i \in 1..Len(items) |-> Expanded(items[i])])
                               \o <<Tok("WS"), Tok("END")>>)]

(***************************************************************************)
(* rebuild.py: main, one run of the rebuild pipeline.  notes/ and          *)
(* index.html are taken to exist.                                          *)
(***************************************************************************)
Name(stem) == stem \o DotHtml
Article(h1, meta) == [h1 |-> h1, meta |-> meta, paras |-> <<>>]

D20240601 == <<"2", "0", "2", "4", "-", "0", "6", "-", "0", "1">>
D20230101 == <<"2", "0", "2", "3", "-", "0", "1", "-", "0", "1">>
D20240305 == <<"2", "0", "2", "4", "-", "0", "3", "-", "0", "5">>
D20240230 == <<"2", "0", "2", "4", "-", "0", "2", "-", "3", "0">>
D20241301 == <<"2", "0", "2", "4", "-", "1", "3", "-", "0", "1">>

\* the articles notes/ may hold: file name -> content
RebuildArticles ==
    (Name(D20240601 \o <<"-", "a">>) :> Article(<<"a">>, D20240601))
    @@ (Name(D20230101 \o <<"-", "b">>) :> Article(<<"b", "&", "a", "m", "p", ";">>,
                                                  D20230101 \o <<" ">> \o TagSuibi))
    @@ (Name(<<"c">>) :> Article(Absent, TagFeihua \o <<" ">> \o D20240601))
    @@ (Name(D20240305 \o <<"-", "d">>) :> Article(<<"C", ":", "\\", "p">>, Absent))
    @@ (Name(<<"e">>) :> Article(<<"e">>, D20240230 \o TagYingyu))
    @@ (Name(<<"f">>) :> Article(<<"<", "i", ">", "f", "<", "/", "i", ">">>,
                                 TagYingyu \o <<" ">> \o D20240305))
    @@ (Name(<<"g">>) :> Article(<<"g", "\\", "n">>, TagDuanzi \o D20230101 \o TagManhua))
    @@ (Name(D20241301 \o <<"-", "h">>) :> Article(<<"h">>, Absent))
    @@ (Name(<<"x">>) :> Article(Absent, Absent))
    @@ (Name(<<"y">>) :> Article(<<"y">>, TagYingyu \o D20240601))

Restrict(f, S) == [x \in S |-> f[x]]

\* every order in which the members of S can be listed
RECURSIVE Orders(_)
Orders(S) ==
    IF S = {} THEN {<<>>}
    ELSE UNION {{<<x>> \o q : q \in Orders(S \ {x})} : x \in S}

OldEntry == [kind |-> "LI", href |-> <<"o">>, label |-> <<"o">>, tag |-> TagSuibi]

\* the index documents of the model
RebuildIndexDocs ==
    {<<>>,
     <<Tok("UL"), Tok("START"), OldEntry, Tok("END"), Tok("EUL")>>,
     <<Tok("TXT"), Tok("START"), Tok("END"), OldEntry>>,
     <<Tok("UL"), Tok("START"), OldEntry, Tok("EUL")>>,
     <<Tok("UL"), OldEntry, Tok("END"), Tok("EUL")>>,
     <<Tok("END"), OldEntry, Tok("START")>>,
     <<Tok("START"), OldEntry, Tok("END"), Tok("TXT"), Tok("START"), Tok("END")>>}

InitRebuild ==
    /\ pc = "idle"
    /\ FnUnused
    /\ raw_dir = <<>> /\ queue = <<>> /\ index_html = <<>> /\ new_notes = <<>>
    /\ notes_dir0 = <<>>
    /\ notes_dir \in {Restrict(RebuildArticles, S) :
                        S \in {T \in SUBSET DOMAIN RebuildArticles :
                                  Cardinality(T) <= MaxArticles}}
    /\ index \in RebuildIndexDocs
    /\ index0 = <<>>
    /\ exit = "none"
    /\ runs = 0
    /\ RebuildUnused

\* the parse_post records of the files of notes/ (lines 262-265, before the
\* order of glob is chosen)
Records(dir) == {parse_post(n, dir[n]) : n \in DOMAIN dir}

\* the first part of main when an article with an invalid date is left out
RebuildScan_SkipInvalid ==
    /\ pc = "idle"
    /\ runs < MaxRuns
    /\ runs' = runs + 1
    /\ index0' = index
    /\ \E recs \in {Records(notes_dir) \ {post_Fail}} :
          \E sorted \in {SortByDtDesc(listed) : listed \in Orders(recs)} :
             /\ posts' = sorted
             /\ all_html' = build_all_html(posts')
             /\ archive_html' = build_archive_html(posts')
             /\ written' = {"all", "archive"}
             /\ exit' = "running"
             /\ pc' = "patch"
    /\ UNCHANGED <<raw_dir, notes_dir, index, queue, index_html, new_notes, notes_dir0>>
    /\ UNCHANGED fnVars

\* main, lines 260-273: parse every notes/*.html in the order glob lists them
\* (the ValueError of a parse_post ends the run, whatever the order), sort the
\* records by date (the sort is stable: records of one date stay in the order
\* of glob), write all.html and archive.html
RebuildScan ==
    /\ pc = "idle"
    /\ runs < MaxRuns
    /\ runs' = runs + 1
    /\ index0' = index
    /\ \E recs \in {Records(notes_dir)} :
          IF post_Fail \in recs
          THEN /\ exit' = "fatal"
               /\ pc' = "idle"
               /\ posts' = <<>>
               /\ written' = {}
               /\ UNCHANGED <<all_html, archive_html>>
          ELSE \E sorted \in {SortByDtDesc(listed) : listed \in Orders(recs)} :
                  /\ posts' = sorted
                  /\ all_html' = build_all_html(posts')
                  /\ archive_html' = build_archive_html(posts')
                  /\ written' = {"all", "archive"}
                  /\ exit' = "running"
                  /\ pc' = "patch"
    /\ UNCHANGED <<raw_dir, notes_dir, index, queue, index_html, new_notes, notes_dir0>>
    /\ UNCHANGED fnVars

\* main, lines 275-278: patch the recent list of index.html
RebuildPatch ==
    /\ pc = "patch"
    /\ pc' = "idle"
    /\ LET res == patch_index_recent(index, Slice(posts, RECENT_N))
       IN  IF res.ok
           THEN /\ index' = res.doc
                /\ written' = written \cup {"index"}
                /\ exit' = "ok"
           ELSE /\ exit' = "fatal"
                /\ UNCHANGED <<index, written>>
    /\ UNCHANGED <<raw_dir, notes_dir, queue, index_html, new_notes, runs, notes_dir0,
                   index0, posts, all_html, archive_html>>
    /\ UNCHANGED fnVars

\* between two runs an article appears in notes/
AddArticle ==
    /\ pc = "idle"
    /\ runs >= 1
    /\ runs < MaxRuns
    /\ Cardinality(DOMAIN notes_dir) < MaxArticles
    /\ \E n \in DOMAIN RebuildArticles \ DOMAIN notes_dir :
          notes_dir' = (n :> RebuildArticles[n]) @@ notes_dir
    /\ UNCHANGED <<pc, raw_dir, index, queue, index_html, new_notes, exit, runs,
                   notes_dir0, index0>>
    /\ UNCHANGED fnVars
    /\ UNCHANGED rebuildVars

NextRebuild == RebuildScan \/ RebuildPatch \/ AddArticle

SpecRebuild == InitRebuild /\ [][NextRebuild]_vars

(***************************************************************************)
(* Properties of the rebuild pipeline.                                     *)
(***************************************************************************)
\* the positions of doc that hold a token of kind k
Positions(doc, k) == {i \in 1..Len(doc) : doc[i].kind = k}

\* both marker comments are in the document
MarkersPresent(doc) == Positions(doc, "START") # {} /\ Positions(doc, "END") # {}

\* the document has one start marker and one end marker, in this order
OneMarkerPair(doc) ==
    /\ Cardinality(Positions(doc, "START")) = 1
    /\ Cardinality(Positions(doc, "END")) = 1
    /\ FirstKind(doc, "START", 1, Len(doc)) < FirstKind(doc, "END", 1, Len(doc))

\* the tokens of a text that are not white space
NoSpace(text) == SelectSeq(text, LAMBDA tk : tk.kind # "WS")

\* recs lists every article of notes/ once, the later dated never after the
\* earlier dated
AllByDateDesc(recs) ==
    /\ Len(recs) = Cardinality(DOMAIN notes_dir)
    /\ \A n \in DOMAIN notes_dir : \E i \in 1..Len(recs) : recs[i].file = n
    /\ \A i, j \in 1..Len(recs) : i < j => recs[i].dt >= recs[j].dt

\* the smaller of two numbers
Min(a, b) == IF a < b THEN a ELSE b

\* C5: the patch of the recent list fails when a marker comment is absent
\* from index.html and leaves the document alone; when the document has the
\* marker pair the run ends normally, the text between the markers becomes the
\* list items of the min(RECENT_N, number of records) most recently dated
\* records, the most recent first, each item as li writes it, and the text
\* outside the pair is unchanged.
C5_PatchBetweenMarkers ==
    [][pc = "patch" =>
         IF ~ MarkersPresent(index)
         THEN exit' = "fatal" /\ index' = index
         ELSE OneMarkerPair(index) =>
                 LET st == FirstKind(index, "START", 1, Len(index))
                     en == FirstKind(index, "END", 1, Len(index))
                     st2 == FirstKind(index', "START", 1, Len(index'))
                     en2 == FirstKind(index', "END", 1, Len(index'))
                     k == Min(RECENT_N, Len(posts))
                 IN  /\ AllByDateDesc(posts)
                     /\ exit' = "ok"
                     /\ OneMarkerPair(index')
                     /\ SubSeq(index', 1, st2) = SubSeq(index, 1, st)
                     /\ SubSeq(index', en2, Len(index')) = SubSeq(index, en, Len(index))
                     /\ NoSpace(SubSeq(index', st2 + 1, en2 - 1))
                           = [i \in 1..k |-> li(posts[i])]]_vars

\* the tag sections of the listing after the three preferred ones
OtherSections(all) == SubSeq(all.sections, Len(preferred) + 1, Len(all.sections))

\* the places <<section, item>> of the listing that hold the entry of a record
PlacesOf(all, post) ==
    {pl \in {<<i, j>> : i \in 1..Len(all.sections), j \in 1..MaxArticles + 1} :
        /\ pl[2] <= Len(all.sections[pl[1]].items)
        /\ all.sections[pl[1]].items[pl[2]] = li(post)}

\* C9: all.html has the sections of the tags in the order preferred, then
\* one section for every other tag of the records in ascending order; every
\* record has its entry in one place, in the section of its tag; the entries
\* of a section are in date-descending order; the pills name the sections in
\* the same order.
C9_TagListingOrder ==
    pc = "patch" =>
        LET secs == all_html.sections
            others == OtherSections(all_html)
        IN  /\ Len(secs) >= Len(preferred)
            /\ \A i \in 1..Len(preferred) : secs[i].id = preferred[i]
            /\ {others[i].id : i \in 1..Len(others)}
                  = {posts[k].tag : k \in 1..Len(posts)} \ Range(preferred)
            /\ \A i, j \in 1..Len(others) : i < j => StrLess(others[i].id, others[j].id)
            /\ \A k \in 1..Len(posts) :
                  /\ Cardinality(PlacesOf(all_html, posts[k])) = 1
                  /\ \A pl \in PlacesOf(all_html, posts[k]) : secs[pl[1]].id = posts[k].tag
            /\ \A k, m \in 1..Len(posts) :
                  \A pk \in PlacesOf(all_html, posts[k]), pm \in PlacesOf(all_html, posts[m]) :
                     (pk[1] = pm[1] /\ pk[2] < pm[2]) => posts[k].dt >= posts[m].dt
            /\ \A i \in 1..Len(secs) :
                  \A j \in 1..Len(secs[i].items) :
                     \E k \in 1..Len(posts) : secs[i].items[j] = li(posts[k])
            /\ all_html.pills = [i \in 1..Len(secs) |-> secs[i].id]

\* a listing with two sections of other tags after the preferred ones (all
\* three empty), one of them with two entries of different dates
C9_Witness ==
    /\ pc = "patch"
    /\ Len(all_html.sections) = Len(preferred) + 2
    /\ \A i \in 1..Len(preferred) : all_html.sections[i].items = <<>>
    /\ \E i \in 1..Len(all_html.sections) : Len(all_html.sections[i].items) = 2
    /\ \E k, m \in 1..Len(posts) : posts[k].tag = posts[m].tag /\ posts[k].dt > posts[m].dt

\* the date string parse_post recovers for an article is no calendar date
InvalidDate(name) == ~ strptime(post_date(name, notes_dir[name])).ok

\* C10: a run that starts while notes/ holds an article whose recovered date
\* string is no calendar date ends with the error, and writes none of
\* index.html, all.html and archive.html.
C10_InvalidDateIsFatal ==
    [][(pc = "idle" /\ runs' = runs + 1 /\ \E n \in DOMAIN notes_dir : InvalidDate(n))
          => /\ exit' = "fatal"
             /\ pc' = "idle"
             /\ written' = {}
             /\ all_html' = all_html
             /\ archive_html' = archive_html
             /\ index' = index]_vars

\* a second run that failed on an invalid date beside a valid article, after
\* a first run that wrote the listings
C10_Witness ==
    /\ runs = 2
    /\ pc = "idle"
    /\ exit = "fatal"
    /\ written = {}
    /\ all_html # <<>>
    /\ \E n \in DOMAIN notes_dir : InvalidDate(n)
    /\ \E n \in DOMAIN notes_dir : ~ InvalidDate(n)

=============================================================================
